---------------------------- MODULE Spec2Model ----------------------------
(***************************************************************************)
(* A model of yahoo_earnings_calendar/scraper.py: the payload extraction   *)
(* (_get_data_dict, _extract_earnings_from_sveltekit,                      *)
(* _convert_visualization_to_dict) and the public operations earnings_on,  *)
(* earnings_between, get_earnings_of and get_next_earnings_date, run       *)
(* against a source that answers each fetch with a page or a failure.      *)
(*                                                                         *)
(* JSON values are abstracted to the shapes the code distinguishes.  A     *)
(* cell of a row is a record [kind, v]; a Python dict with string keys is  *)
(* a function whose DOMAIN is the set of its keys.                         *)
(***************************************************************************)
EXTENDS Integers, Sequences, FiniteSets, TLC

---------------------------------------------------------------------------
(* Program constants and bounds of the model                               *)

OFFSET_STEP == 100

\* largest total count the source reports in SpecPaging
MaxTotal == 201
\* calendar days are 1..MaxDay
MaxDay == 2
\* start date-times (and "now") range over 0..MaxTime
MaxTime == 2
\* longest record list a symbol page carries
MaxSymRows == 2
\* longest candidate list of a page in SpecExtract
MaxCands == 3
\* columns of a document, cells of a row and rows in SpecNormalize
MaxCols == 2
MaxRows == 2

Days == 1..MaxDay
Times == 0..MaxTime

Min(a, b) == IF a <= b THEN a ELSE b
Max(a, b) == IF a >= b THEN a ELSE b

---------------------------------------------------------------------------
(* JSON cells                                                              *)

NullCell == [kind |-> "null", v |-> 0]
StrCell(n) == [kind |-> "str", v |-> n]
\* the string ""
EmptyCell == [kind |-> "empty", v |-> 0]
\* "YYYY-MM-DD" of day t: a string without 'T'
DateOnlyCell(t) == [kind |-> "dateonly", v |-> t]
\* "YYYY-MM-DDTHH:MM:SS.000-04:00" whose wall-clock part is time t
DateTimeCell(t) == [kind |-> "datetime", v |-> t]
\* a string that holds a 'T' and is no date-time, such as "TBD"
BadTCell == [kind |-> "badT", v |-> 0]

StartCells ==
    {NullCell, EmptyCell, BadTCell}
        \cup {DateOnlyCell(t) : t \in Times}
        \cup {DateTimeCell(t) : t \in Times}

---------------------------------------------------------------------------
(* _convert_visualization_to_dict                                          *)

\* [col['id'] for col in doc.get('columns', [])] raises KeyError when a
\* column has no 'id'
ColumnsHaveId(doc) == \A i \in 1..Len(doc.columns) : doc.columns[i].hasId

ColumnIds(doc) == [i \in 1..Len(doc.columns) |-> doc.columns[i].id]

\* the loop of lines 96-98: row_dict[col] = row[i] if i < len(row) else None,
\* for the columns in order; a later assignment to the same key overwrites
RECURSIVE row_dict_up_to(_, _, _)
row_dict_up_to(columns, row, n) ==
    IF n = 0 THEN <<>>
    ELSE LET prev == row_dict_up_to(columns, row, n - 1)
             val == IF n <= Len(row) THEN row[n] ELSE NullCell
         IN [k \in (DOMAIN prev) \cup {columns[n]} |->
                IF k = columns[n] THEN val ELSE prev[k]]

row_dict(columns, row) == row_dict_up_to(columns, row, Len(columns))

earnings_rows(columns, rows) ==
    [r \in 1..Len(rows) |-> row_dict(columns, rows[r])]

\* a bug: the 'total' of the result is not read
ResultTotalFromRows(result, rows) == Len(rows)

\* result.get('total', len(rows))
ResultTotal(result, rows) ==
    IF result.hasTotal THEN result.total ELSE Len(rows)

\* The legacy-shaped dictionary: `has` names the paths present in it
\* ("total": ...ScreenerCriteriaStore.meta.total, "rows":
\* ...ScreenerResultsStore.results.rows, "next": ...QuoteSummaryStore
\* ...earningsDate[0].raw)
convert_visualization_to_dict(result, doc) ==
    [has |-> {"total", "rows"},
     total |-> ResultTotal(result, doc.rows),
     rows |-> earnings_rows(ColumnIds(doc), doc.rows),
     next |-> 0]

NoData == [has |-> {}, total |-> 0, rows |-> <<>>, next |-> 0]

---------------------------------------------------------------------------
(* Pages                                                                   *)
(*                                                                         *)
(* A page is [cands, legacy]: cands are the bodies of the script elements  *)
(* the regular expression of line 64 matches, in page order; legacy are    *)
(* the text lines that start with 'root.App.main = ', in page order.       *)
(*                                                                         *)
(* A candidate is [shape, results]:                                        *)
(*   "badjson"      json.loads(match) raises JSONDecodeError               *)
(*   "nobody"       an object without 'body'                               *)
(*   "bodybadjson"  'body' is a string that is no JSON                     *)
(*   "bodynotstr"   'body' is an object or null, not a string              *)
(*   "nofinance"    the parsed body has no 'finance'                       *)
(*   "financenull"  body['finance'] is null                                *)
(*   "noresult"     body['finance'] has no 'result'                        *)
(*   "ok"           body['finance']['result'] is the list `results`        *)
(* A result is [hasTotal, total, hasDocs, docs]; a document is             *)
(* [entityIdType, columns, rows]; a column is [hasId, id].                 *)
(* A legacy line is [form, data]: "json;" is a JSON text followed by one   *)
(* character, "json" a JSON text with nothing after it, "garbage" no JSON. *)

CandShapes ==
    {"badjson", "nobody", "bodybadjson", "bodynotstr", "nofinance",
     "financenull", "noresult", "ok"}

Cand(shape) == [shape |-> shape, results |-> <<>>]
OkCand(results) == [shape |-> "ok", results |-> results]

Col(id) == [hasId |-> TRUE, id |-> id]
ColNoId == [hasId |-> FALSE, id |-> ""]

Doc(type, columns, rows) ==
    [entityIdType |-> type, columns |-> columns, rows |-> rows]

ResultOf(docs) ==
    [hasTotal |-> FALSE, total |-> 0, hasDocs |-> TRUE, docs |-> docs]
ResultWithTotal(total, docs) ==
    [hasTotal |-> TRUE, total |-> total, hasDocs |-> TRUE, docs |-> docs]
ResultNoDocs ==
    [hasTotal |-> FALSE, total |-> 0, hasDocs |-> FALSE, docs |-> <<>>]

Return(data) == [ctl |-> "return", exc |-> "", data |-> data]
Raise(exc) == [ctl |-> "raise", exc |-> exc, data |-> NoData]
Continue == [ctl |-> "continue", exc |-> "", data |-> NoData]

---------------------------------------------------------------------------
(* _extract_earnings_from_sveltekit                                        *)

\* lines 79-82: the documents of one result, in order
RECURSIVE ScanDocs(_, _, _)
ScanDocs(result, docs, i) ==
    IF i > Len(docs) THEN Continue
    ELSE IF docs[i].entityIdType = "SP_EARNINGS"
         THEN IF ColumnsHaveId(docs[i])
              THEN Return(convert_visualization_to_dict(result, docs[i]))
              ELSE Raise("KeyError")
         ELSE ScanDocs(result, docs, i + 1)

\* lines 76-82: the results of one candidate, in order
RECURSIVE ScanResults(_, _)
ScanResults(results, i) ==
    IF i > Len(results) THEN Continue
    ELSE IF ~results[i].hasDocs THEN ScanResults(results, i + 1)
         ELSE LET r == ScanDocs(results[i], results[i].docs, 1)
              IN IF r.ctl = "continue" THEN ScanResults(results, i + 1)
                 ELSE r

\* lines 69-82, the body of the try: what it returns or raises
TryCandidate(c) ==
    CASE c.shape = "badjson" -> Raise("JSONDecodeError")
      [] c.shape = "nobody" -> Continue
      [] c.shape = "bodybadjson" -> Raise("JSONDecodeError")
      [] c.shape = "bodynotstr" -> Raise("TypeError")
      [] c.shape = "nofinance" -> Continue
      [] c.shape = "financenull" -> Raise("TypeError")
      [] c.shape = "noresult" -> Continue
      [] OTHER -> ScanResults(c.results, 1)

\* lines 67-86: except (json.JSONDecodeError, KeyError): continue; any other
\* exception leaves the function; None when no candidate matched
RECURSIVE ScanCandidates(_, _)
ScanCandidates(cands, i) ==
    IF i > Len(cands) THEN Continue
    ELSE LET r == TryCandidate(cands[i])
         IN IF r.ctl = "return" THEN r
            ELSE IF r.ctl = "raise" /\ r.exc \notin {"JSONDecodeError", "KeyError"}
                 THEN r
                 ELSE ScanCandidates(cands, i + 1)

extract_earnings_from_sveltekit(page) == ScanCandidates(page.cands, 1)

---------------------------------------------------------------------------
(* _get_data_dict, from the response on                                    *)

\* lines 53-59: the first line with the prefix, its last character cut,
\* parsed as JSON; IndexError and JSONDecodeError become ValueError
LegacyFallback(page) ==
    IF Len(page.legacy) = 0 THEN Raise("ValueError")
    ELSE IF page.legacy[1].form = "json;" THEN Return(page.legacy[1].data)
         ELSE Raise("ValueError")

\* lines 45-59 on a page text that decoded
ExtractPage(page) ==
    LET s == extract_earnings_from_sveltekit(page)
    IN IF s.ctl = "continue" THEN LegacyFallback(page) ELSE s

\* A response is [net, utf8, page]: requests.get raised (net = "fail"), or
\* returned bytes that decode as UTF-8 or not
NetFail == [net |-> "fail", utf8 |-> FALSE, page |-> [cands |-> <<>>, legacy |-> <<>>]]
BadUtf8 == [net |-> "ok", utf8 |-> FALSE, page |-> [cands |-> <<>>, legacy |-> <<>>]]
Served(page) == [net |-> "ok", utf8 |-> TRUE, page |-> page]

get_data_dict(resp) ==
    IF resp.net = "fail" THEN Raise("ConnectionError")
    ELSE IF ~resp.utf8 THEN Raise("UnicodeDecodeError")
         ELSE ExtractPage(resp.page)

---------------------------------------------------------------------------
(* Arguments of the public operations                                      *)
(*                                                                         *)
(* A date argument is [kind, day, tod]: a datetime.date ("date"), a        *)
(* datetime.datetime ("datetime", a subclass of datetime.date, with a time *)
(* of day), a str ("str", ordered by `day`) or None ("none").              *)

DateVal(d) == [kind |-> "date", day |-> d, tod |-> 0]
DateTimeVal(d, t) == [kind |-> "datetime", day |-> d, tod |-> t]
StrVal(d) == [kind |-> "str", day |-> d, tod |-> 0]
NoneVal == [kind |-> "none", day |-> 0, tod |-> 0]

DateArgs ==
    {DateVal(d) : d \in Days}
        \cup {DateTimeVal(d, t) : d \in Days, t \in 0..1}
        \cup {StrVal(d) : d \in Days}
        \cup {NoneVal}

\* a > b and a <= b raise TypeError between a date and a datetime, between
\* a str and either, and with None
Comparable(a, b) == a.kind = b.kind /\ a.kind # "none"

Gt(a, b) == a.day > b.day \/ (a.day = b.day /\ a.tod > b.tod)

\* isinstance(x, datetime.date)
IsInstanceDate(x) == x.kind \in {"date", "datetime"}

\* a bug: a step of two days
AddTwoDays(x) == [x EXCEPT !.day = @ + 2]

\* x + datetime.timedelta(days=1)
AddDay(x) == [x EXCEPT !.day = @ + 1]

\* x.strftime('%Y-%m-%d'): the day, without the time of day
Strftime(x) == x.day

DayUrl(date, offset) ==
    [endpoint |-> "day", day |-> Strftime(date), offset |-> offset,
     size |-> OFFSET_STEP, symbol |-> ""]
SymbolCalendarUrl(symbol) ==
    [endpoint |-> "symcal", day |-> 0, offset |-> 0, size |-> 0, symbol |-> symbol]
SymbolDetailUrl(symbol) ==
    [endpoint |-> "quote", day |-> 0, offset |-> 0, size |-> 0, symbol |-> symbol]
NoUrl == [endpoint |-> "", day |-> 0, offset |-> 0, size |-> 0, symbol |-> ""]

Symbols == {"box"}

\* SLEEP_BETWEEN_REQUESTS_S = 60 * 60 / RATE_LIMIT = 1.8 s, in milliseconds
SLEEP_BETWEEN_REQUESTS_MS == 1800
Delays == {SLEEP_BETWEEN_REQUESTS_MS, 0}

---------------------------------------------------------------------------
(* The source: what a fetch of a URL may answer                            *)

GarbagePage == [cands |-> <<>>, legacy |-> <<>>]

LegacyLine(data) == [form |-> "json;", data |-> data]
LegacyLineUncut(data) == [form |-> "json", data |-> data]

LegacyData(total, rows) ==
    [has |-> {"total", "rows"}, total |-> total, rows |-> rows, next |-> 0]

\* the records of day d the source holds at offset off: at most size of them
DayRowCount(total, off) == Min(OFFSET_STEP, Max(0, total - off))

DayRows(d, total, off) ==
    [i \in 1..DayRowCount(total, off) |-> <<StrCell(d * 1000 + off + i)>>]

DayDoc(d, total, off) ==
    Doc("SP_EARNINGS", <<Col("ticker")>>, DayRows(d, total, off))

DayPages(d, total, off) ==
    LET doc == DayDoc(d, total, off)
        res == ResultWithTotal(total, <<doc>>)
        dicts == earnings_rows(<<"ticker">>, doc.rows)
    IN {\* the current layout
        [cands |-> <<OkCand(<<res>>)>>, legacy |-> <<>>],
        \* the same behind candidates, results and documents that do not match
        [cands |-> <<Cand("badjson"), Cand("nobody"),
                     OkCand(<<ResultNoDocs,
                              ResultWithTotal(total,
                                  <<Doc("OTHER", <<>>, <<>>), doc>>)>>)>>,
         legacy |-> <<LegacyLineUncut(NoData)>>],
        \* the legacy layout
        [cands |-> <<>>, legacy |-> <<LegacyLine(LegacyData(total, dicts))>>],
        \* the legacy layout without the stores earnings_on reads
        [cands |-> <<>>, legacy |-> <<LegacyLine(NoData)>>],
        [cands |-> <<>>,
         legacy |-> <<LegacyLine([LegacyData(total, dicts) EXCEPT !.has = {"total"}])>>],
        \* a candidate whose body is no string, before one that matches
        [cands |-> <<Cand("bodynotstr"), OkCand(<<res>>)>>, legacy |-> <<>>],
        \* an error page
        GarbagePage}

MissingCell == [kind |-> "missing", v |-> 0]

\* the start date-times of the records of a symbol page, MissingCell for a
\* record that carries none
SymStartLists ==
    UNION {[1..n -> StartCells \cup {MissingCell}] : n \in 0..MaxSymRows}

SvelteSymRows(starts) ==
    [i \in 1..Len(starts) |->
        IF starts[i] = MissingCell THEN <<StrCell(i)>>
        ELSE <<StrCell(i), starts[i]>>]

LegacySymRows(starts) ==
    [i \in 1..Len(starts) |->
        IF starts[i] = MissingCell THEN [ticker |-> StrCell(i)]
        ELSE [ticker |-> StrCell(i), startdatetime |-> starts[i]]]

SymbolCalendarPages ==
    {[cands |-> <<OkCand(<<ResultOf(<<Doc("SP_EARNINGS",
                      <<Col("ticker"), Col("startdatetime")>>,
                      SvelteSymRows(starts))>>)>>)>>,
      legacy |-> <<>>] : starts \in SymStartLists}
    \cup
    {[cands |-> <<>>,
      legacy |-> <<LegacyLine(LegacyData(Len(starts), LegacySymRows(starts)))>>] :
        starts \in SymStartLists}
    \cup {GarbagePage, [cands |-> <<>>, legacy |-> <<LegacyLine(NoData)>>]}

SymbolDetailPages ==
    {[cands |-> <<>>,
      legacy |-> <<LegacyLine([NoData EXCEPT !.has = {"next"}, !.next = t * 86400])>>] :
        t \in Times}
    \cup {[cands |-> <<>>, legacy |-> <<LegacyLine(NoData)>>],
          [cands |-> <<OkCand(<<ResultOf(<<Doc("SP_EARNINGS", <<>>, <<>>)>>)>>)>>,
           legacy |-> <<>>],
          GarbagePage}

PagesAt(u, totals) ==
    CASE u.endpoint = "day" -> DayPages(u.day, totals[u.day], u.offset)
      [] u.endpoint = "symcal" -> SymbolCalendarPages
      [] OTHER -> SymbolDetailPages

Responses(u, totals) ==
    {NetFail, BadUtf8} \cup {Served(p) : p \in PagesAt(u, totals)}

---------------------------------------------------------------------------
(* Outcomes of a call                                                      *)

NoOutcome == [status |-> "none", exc |-> "", kind |-> "", rows |-> <<>>, ts |-> 0]
OkList(rows) == [status |-> "ok", exc |-> "", kind |-> "list", rows |-> rows, ts |-> 0]
OkInt(ts) == [status |-> "ok", exc |-> "", kind |-> "int", rows |-> <<>>, ts |-> ts]
OkNone == [status |-> "ok", exc |-> "", kind |-> "None", rows |-> <<>>, ts |-> 0]
Raised(exc) == [status |-> "raise", exc |-> exc, kind |-> "", rows |-> <<>>, ts |-> 0]

---------------------------------------------------------------------------
(* earnings_on: the pure parts                                             *)

\* a bug: > where the code has >=
PastCountStrict(offset, count) == offset > count

\* line 191
PastCount(offset, count) == offset >= count

\* a bug: the next page starts one record too far
new_offset_off_by_one(offset) == offset + OFFSET_STEP + 1

\* line 206
new_offset(offset) == offset + OFFSET_STEP

\* lines 208-210 in every frame of the recursion, the deepest first: frame i
\* holds the dictionary of the page at offset (i-1) * OFFSET_STEP past the
\* first; the rows lookup of line 208 raises KeyError
RECURSIVE Unwind(_, _)
Unwind(frames, i) ==
    IF i > Len(frames) THEN OkList(<<>>)
    ELSE LET more == Unwind(frames, i + 1)
         IN IF more.status = "raise" THEN more
            ELSE IF "rows" \notin frames[i].has THEN Raised("KeyError")
                 ELSE OkList(frames[i].rows \o more.rows)

---------------------------------------------------------------------------
(* get_next_earnings_date: the pure parts                                  *)

\* earning.get('startdatetime', '')
StartOf(e) ==
    IF "startdatetime" \in DOMAIN e THEN e["startdatetime"] ELSE EmptyCell

\* The order of Python's str comparison on the strings the cells stand for:
\* "" first, "YYYY-MM-DD" before the date-times of its day (it is a prefix
\* of them), and "TBD" after every string that starts with a digit
StrKey(c) ==
    CASE c.kind = "empty" -> 0
      [] c.kind = "dateonly" -> 2 * c.v + 1
      [] c.kind = "datetime" -> 2 * c.v + 2
      [] OTHER -> 2 * MaxTime + 3

\* sorted() is stable: e goes after the elements whose key is <= its own
RECURSIVE InsertByStart(_, _, _)
InsertByStart(sorted, e, i) ==
    IF i > Len(sorted) THEN Append(sorted, e)
    ELSE IF StrKey(StartOf(e)) < StrKey(StartOf(sorted[i]))
         THEN SubSeq(sorted, 1, i - 1) \o <<e>> \o SubSeq(sorted, i, Len(sorted))
         ELSE InsertByStart(sorted, e, i + 1)

RECURSIVE SortedByStartUpTo(_, _)
SortedByStartUpTo(earnings, n) ==
    IF n = 0 THEN <<>>
    ELSE InsertByStart(SortedByStartUpTo(earnings, n - 1), earnings[n], 1)

SortedByStart(earnings) == SortedByStartUpTo(earnings, Len(earnings))

\* sorted() compares the keys of a list of two or more: a None among them
\* raises TypeError ('<' not supported)
SortRaises(earnings) ==
    /\ Len(earnings) >= 2
    /\ \E i \in 1..Len(earnings) : StartOf(earnings[i]).kind = "null"

\* lines 155-156: the text before the first '.' (or the first 19 characters)
\* parsed with '%Y-%m-%dT%H:%M:%S': the wall-clock time, the millisecond and
\* UTC-offset suffix dropped
Strptime(c) == c.v

\* int(earnings_dt.timestamp()) on a host whose local zone is UTC, the times
\* of the model being whole days
Timestamp(t) == t * 86400

\* lines 147-161: the loop over the sorted records
RECURSIVE ScanUpcoming(_, _, _)
ScanUpcoming(sorted, i, now) ==
    IF i > Len(sorted) THEN Raised("Exception")
    ELSE LET s == StartOf(sorted[i])
         IN IF s.kind \in {"null", "empty"} THEN ScanUpcoming(sorted, i + 1, now)
            ELSE IF s.kind = "dateonly" THEN ScanUpcoming(sorted, i + 1, now)
            ELSE IF s.kind = "badT" THEN ScanUpcoming(sorted, i + 1, now)
            ELSE IF Strptime(s) >= now THEN OkInt(Timestamp(Strptime(s)))
            ELSE ScanUpcoming(sorted, i + 1, now)

\* lines 144-165 on the list get_earnings_of returned: an empty list leaves
\* the if of line 144 and the function returns None; TypeError of the sort
\* and the Exception of line 161 are caught and raised as Exception
NextFromEarnings(earnings, now) ==
    IF Len(earnings) = 0 THEN OkNone
    ELSE IF SortRaises(earnings) THEN Raised("Exception")
    ELSE ScanUpcoming(SortedByStart(earnings), 1, now)

---------------------------------------------------------------------------
(* The state                                                               *)

VARIABLES
    delay,      \* self.delay, set by __init__
    srcTotal,   \* the source: the total count of each day
    pc,         \* where the running call stands
    op,         \* the public operation running and its arguments
    cur,        \* earnings_on: the arguments of the innermost invocation
    frames,     \* earnings_on: page_data_dict of each outer invocation
    bt,         \* earnings_between: current_date, to_date and earnings_data
    ctx,        \* the caller of _get_data_dict
    url,        \* the URL _get_data_dict was called with
    inflight,   \* requests sent and not answered
    earnings,   \* get_next_earnings_date: the list get_earnings_of returned
    clock,      \* get_next_earnings_date: the time line 146 read, -1 before
    outcome,    \* what the call returned or raised
    log,        \* the sleeps, requests and answers of the running call
    calls,      \* the earnings_on invocations earnings_between made
    xin,        \* the input of the extraction and conversion functions
    xout        \* their output

vars ==
    <<delay, srcTotal, pc, op, cur, frames, bt, ctx, url, inflight, earnings,
      clock, outcome, log, calls, xin, xout>>

NoOp ==
    [name |-> "", date |-> NoneVal, offset |-> 0, count |-> 0,
     from |-> NoneVal, to |-> NoneVal, symbol |-> ""]
NoCur == [date |-> NoneVal, offset |-> 0, count |-> 0]
NoBt == [current_date |-> NoneVal, to_date |-> NoneVal, earnings_data |-> <<>>]
NoX == [kind |-> ""]

\* the totals of the days in Spec
SmallTotals == {0, 1, OFFSET_STEP + 1}

Idle ==
    /\ pc = "idle"
    /\ op = NoOp
    /\ cur = NoCur
    /\ frames = <<>>
    /\ bt = NoBt
    /\ ctx = ""
    /\ url = NoUrl
    /\ inflight = 0
    /\ earnings = <<>>
    /\ clock = -1
    /\ outcome = NoOutcome
    /\ log = <<>>
    /\ calls = <<>>

Init ==
    /\ delay \in Delays
    /\ srcTotal \in [Days -> SmallTotals]
    /\ Idle
    /\ xin = NoX
    /\ xout = NoX

---------------------------------------------------------------------------
(* How a call ends                                                         *)

\* the public operation returns or raises `res`
Finish(res) ==
    /\ pc' = "done"
    /\ outcome' = res
    /\ UNCHANGED <<op, bt, calls>>

\* line 247: earnings_data += self.earnings_on(current_date);
\* line 248: current_date += delta
BetweenAccumulate(res) ==
    /\ pc' = "between_loop"
    /\ bt' = [bt EXCEPT !.earnings_data = @ \o res.rows,
                          !.current_date = AddDay(@)]
    /\ UNCHANGED <<op, outcome, calls>>

\* the outermost earnings_on invocation returns or raises `res` to its
\* caller: earnings_between, which has no handler, or the user
EarningsOnEnds(res) ==
    /\ IF op.name = "earnings_between" /\ res.status = "ok"
       THEN BetweenAccumulate(res)
       ELSE Finish(res)
    /\ cur' = NoCur
    /\ frames' = <<>>

---------------------------------------------------------------------------
(* The public operations are called                                        *)

CallEarningsOn(date, offset, count) ==
    /\ pc = "idle"
    /\ pc' = "on_entry"
    /\ op' = [NoOp EXCEPT !.name = "earnings_on", !.date = date,
                          !.offset = offset, !.count = count]
    /\ cur' = [date |-> date, offset |-> offset, count |-> count]
    /\ UNCHANGED <<delay, srcTotal, frames, bt, ctx, url, inflight, earnings, clock,
                   outcome, log, calls, xin, xout>>

\* lines 236-245
BetweenChecks(from, to) ==
    IF ~Comparable(from, to) THEN Raised("TypeError")
    ELSE IF Gt(from, to) THEN Raised("ValueError")
    ELSE IF ~(IsInstanceDate(from) /\ IsInstanceDate(to)) THEN Raised("TypeError")
    ELSE NoOutcome

CallEarningsBetween(from, to) ==
    /\ pc = "idle"
    /\ op' = [NoOp EXCEPT !.name = "earnings_between", !.from = from, !.to = to]
    /\ LET chk == BetweenChecks(from, to)
       IN IF chk.status = "raise"
          THEN /\ pc' = "done"
               /\ outcome' = chk
               /\ bt' = bt
          ELSE /\ pc' = "between_loop"
               /\ outcome' = outcome
               /\ bt' = [current_date |-> from, to_date |-> to, earnings_data |-> <<>>]
    /\ UNCHANGED <<delay, srcTotal, cur, frames, ctx, url, inflight, earnings, clock,
                   log, calls, xin, xout>>

\* lines 246-249: the loop test, then either the call of line 247 with the
\* default offset and count, or the return
BetweenLoop ==
    /\ pc = "between_loop"
    /\ IF ~Gt(bt.current_date, bt.to_date)
       THEN /\ pc' = "on_entry"
            /\ cur' = [date |-> bt.current_date, offset |-> 0, count |-> 1]
            /\ calls' = Append(calls, [date |-> bt.current_date, offset |-> 0, count |-> 1])
            /\ outcome' = outcome
       ELSE /\ pc' = "done"
            /\ outcome' = OkList(bt.earnings_data)
            /\ UNCHANGED <<cur, calls>>
    /\ UNCHANGED <<delay, srcTotal, op, frames, bt, ctx, url, inflight, earnings, clock,
                   log, xin, xout>>

\* lines 260-262 up to the call of _get_data_dict
CallGetEarningsOf(symbol) ==
    /\ pc = "idle"
    /\ pc' = "sleep"
    /\ op' = [NoOp EXCEPT !.name = "get_earnings_of", !.symbol = symbol]
    /\ ctx' = "get_earnings_of"
    /\ url' = SymbolCalendarUrl(symbol)
    /\ UNCHANGED <<delay, srcTotal, cur, frames, bt, inflight, earnings, clock, outcome,
                   log, calls, xin, xout>>

\* lines 133-135 up to the call of _get_data_dict
CallGetNextEarningsDate(symbol) ==
    /\ pc = "idle"
    /\ pc' = "sleep"
    /\ op' = [NoOp EXCEPT !.name = "get_next_earnings_date", !.symbol = symbol]
    /\ ctx' = "get_next_earnings_date"
    /\ url' = SymbolDetailUrl(symbol)
    /\ UNCHANGED <<delay, srcTotal, cur, frames, bt, inflight, earnings, clock, outcome,
                   log, calls, xin, xout>>

---------------------------------------------------------------------------
(* earnings_on                                                             *)

\* lines 191-196, in the order of the code: the offset test comes before
\* the type test
EntryDecision(date, offset, count) ==
    IF PastCount(offset, count) THEN "empty"
    ELSE IF ~IsInstanceDate(date) THEN "TypeError"
    ELSE "fetch"

\* lines 191-201 of the innermost invocation, up to the call of
\* _get_data_dict; a return or a raise goes through lines 207-210 of every
\* outer invocation
EarningsOnEntry ==
    /\ pc = "on_entry"
    /\ LET d == EntryDecision(cur.date, cur.offset, cur.count)
       IN CASE d = "empty" ->
                 /\ EarningsOnEnds(Unwind(frames, 1))
                 /\ UNCHANGED <<ctx, url>>
            [] d = "TypeError" ->
                 /\ EarningsOnEnds(Raised("TypeError"))
                 /\ UNCHANGED <<ctx, url>>
            [] OTHER ->
                 /\ pc' = "sleep"
                 /\ ctx' = "earnings_on"
                 /\ url' = DayUrl(cur.date, cur.offset)
                 /\ UNCHANGED <<op, cur, frames, bt, outcome, calls>>
    /\ UNCHANGED <<delay, srcTotal, inflight, earnings, clock, log, xin, xout>>

---------------------------------------------------------------------------
(* _get_data_dict                                                          *)

\* a bug: no sleep before the request
NoSleepEvents(d) == <<>>

\* line 43: time.sleep(self.delay)
SleepEvents(d) == <<[ev |-> "sleep", val |-> d]>>

Sleep ==
    /\ pc = "sleep"
    /\ pc' = "get"
    /\ log' = log \o SleepEvents(delay)
    /\ UNCHANGED <<delay, srcTotal, op, cur, frames, bt, ctx, url, inflight,
                   earnings, clock, outcome, calls, xin, xout>>

\* line 44: requests.get(url) is entered
Get ==
    /\ pc = "get"
    /\ pc' = "wait"
    /\ inflight' = inflight + 1
    /\ log' = Append(log, [ev |-> "request", val |-> url.offset])
    /\ UNCHANGED <<delay, srcTotal, op, cur, frames, bt, ctx, url, earnings, clock,
                   outcome, calls, xin, xout>>

\* lines 202-207 of earnings_on once _get_data_dict returned or raised r
EarningsOnPage(r) ==
    IF r.ctl = "raise"
    THEN /\ EarningsOnEnds(Raised(r.exc))
         /\ UNCHANGED <<ctx, url, earnings>>
    ELSE IF "total" \notin r.data.has
    THEN /\ EarningsOnEnds(Raised("KeyError"))
         /\ UNCHANGED <<ctx, url, earnings>>
    ELSE /\ pc' = "on_entry"
         /\ frames' = Append(frames, r.data)
         /\ cur' = [cur EXCEPT !.offset = new_offset(@), !.count = r.data.total]
         /\ UNCHANGED <<op, bt, outcome, calls, ctx, url, earnings>>

\* lines 261-265 of get_earnings_of: the bare except turns every failure
\* into Exception
EarningsOfResult(r) ==
    IF r.ctl = "raise" \/ "rows" \notin r.data.has THEN Raised("Exception")
    ELSE OkList(r.data.rows)

\* get_earnings_of returns to the user, or to line 143 of
\* get_next_earnings_date, whose handlers raise Exception for an Exception
EarningsOfPage(r) ==
    LET res == EarningsOfResult(r)
    IN IF op.name = "get_earnings_of" \/ res.status = "raise"
       THEN /\ Finish(res)
            /\ UNCHANGED <<cur, frames, ctx, url, earnings>>
       ELSE /\ pc' = "scan"
            /\ earnings' = res.rows
            /\ UNCHANGED <<op, bt, outcome, calls, cur, frames, ctx, url>>

\* lines 135-143 of get_next_earnings_date
NextDatePage(r) ==
    IF r.ctl = "raise"
    THEN /\ Finish(Raised("Exception"))
         /\ UNCHANGED <<cur, frames, ctx, url, earnings>>
    ELSE IF "next" \in r.data.has
    THEN /\ Finish(OkInt(r.data.next))
         /\ UNCHANGED <<cur, frames, ctx, url, earnings>>
    ELSE /\ pc' = "sleep"
         /\ ctx' = "get_earnings_of"
         /\ url' = SymbolCalendarUrl(op.symbol)
         /\ UNCHANGED <<op, bt, outcome, calls, cur, frames, earnings>>

\* lines 44-59: requests.get returns or raises, the page is decoded and
\* extracted, and the caller goes on
Respond ==
    /\ pc = "wait"
    /\ \E resp \in Responses(url, srcTotal) :
          /\ log' = Append(log, [ev |-> IF resp.net = "fail" THEN "failure" ELSE "page",
                                 val |-> 0])
          /\ LET r == get_data_dict(resp)
             IN CASE ctx = "earnings_on" -> EarningsOnPage(r)
                  [] ctx = "get_earnings_of" -> EarningsOfPage(r)
                  [] OTHER -> NextDatePage(r)
    /\ inflight' = inflight - 1
    /\ UNCHANGED <<delay, srcTotal, clock, xin, xout>>

\* lines 144-165 of get_next_earnings_date; line 146 reads the clock when the
\* list is not empty
ScanEarnings ==
    /\ pc = "scan"
    /\ \E now \in Times :
          /\ clock' = IF Len(earnings) = 0 THEN clock ELSE now
          /\ Finish(NextFromEarnings(earnings, now))
    /\ UNCHANGED <<delay, srcTotal, cur, frames, ctx, url, inflight, earnings,
                   log, xin, xout>>

\* the object holds nothing of a finished call but its delay
Reset ==
    /\ pc = "done"
    /\ pc' = "idle"
    /\ op' = NoOp
    /\ cur' = NoCur
    /\ frames' = <<>>
    /\ bt' = NoBt
    /\ ctx' = ""
    /\ url' = NoUrl
    /\ inflight' = 0
    /\ earnings' = <<>>
    /\ clock' = -1
    /\ outcome' = NoOutcome
    /\ log' = <<>>
    /\ calls' = <<>>
    /\ UNCHANGED <<delay, srcTotal, xin, xout>>

Offsets == {0, OFFSET_STEP}
Counts == {0, 1, OFFSET_STEP, OFFSET_STEP + 1}

Next ==
    \/ \E date \in DateArgs, offset \in Offsets, count \in Counts :
          CallEarningsOn(date, offset, count)
    \/ \E from \in DateArgs, to \in DateArgs : CallEarningsBetween(from, to)
    \/ \E symbol \in Symbols : CallGetEarningsOf(symbol)
    \/ \E symbol \in Symbols : CallGetNextEarningsDate(symbol)
    \/ BetweenLoop
    \/ EarningsOnEntry
    \/ Sleep
    \/ Get
    \/ Respond
    \/ ScanEarnings
    \/ Reset

Spec == Init /\ [][Next]_vars

---------------------------------------------------------------------------
(* Pagination over every total: earnings_on(date) with the defaults        *)

InitPaging ==
    /\ delay \in Delays
    /\ srcTotal \in {[d \in Days |-> t] : t \in 0..MaxTotal}
    /\ Idle
    /\ xin = NoX
    /\ xout = NoX

NextPaging ==
    \/ \E d \in Days : CallEarningsOn(DateVal(d), 0, 1)
    \/ EarningsOnEntry
    \/ Sleep
    \/ Get
    \/ Respond
    \/ Reset

SpecPaging == InitPaging /\ [][NextPaging]_vars

---------------------------------------------------------------------------
(* The extraction of one page text                                         *)

\* a document with one record, which tells the candidates apart by n
SmallDoc(n) == Doc("SP_EARNINGS", <<Col("ticker")>>, <<<<StrCell(n)>>>>)

ExtractCands ==
    {Cand(shape) : shape \in CandShapes \ {"ok"}}
        \cup {OkCand(<<ResultOf(<<SmallDoc(n)>>)>>) : n \in 1..2}
        \cup {OkCand(<<>>),
              OkCand(<<ResultNoDocs, ResultOf(<<Doc("OTHER", <<>>, <<>>)>>)>>),
              OkCand(<<ResultNoDocs,
                       ResultWithTotal(7, <<Doc("OTHER", <<>>, <<>>), SmallDoc(3)>>)>>),
              \* a column without 'id' in the first earnings document
              OkCand(<<ResultOf(<<Doc("SP_EARNINGS", <<ColNoId>>, <<>>),
                                  SmallDoc(4)>>)>>)}

ExtractLegacies ==
    {<<>>,
     <<LegacyLine(LegacyData(1, <<[ticker |-> StrCell(9)]>>))>>,
     <<LegacyLineUncut(LegacyData(1, <<[ticker |-> StrCell(9)]>>))>>,
     <<[form |-> "garbage", data |-> NoData]>>,
     <<LegacyLine(LegacyData(1, <<[ticker |-> StrCell(9)]>>)),
       [form |-> "garbage", data |-> NoData]>>}

ExtractPages ==
    {[cands |-> c, legacy |-> l] :
        c \in UNION {[1..n -> ExtractCands] : n \in 0..MaxCands},
        l \in ExtractLegacies}

InitExtract ==
    /\ delay = SLEEP_BETWEEN_REQUESTS_MS
    /\ srcTotal = [d \in Days |-> 0]
    /\ Idle
    /\ xin \in {[kind |-> "page", page |-> p] : p \in ExtractPages}
    /\ xout = NoX

\* lines 45-59 applied to the page text
ExtractStep ==
    /\ xin.kind = "page"
    /\ xout = NoX
    /\ xout' = [kind |-> "extracted", res |-> ExtractPage(xin.page)]
    /\ UNCHANGED <<delay, srcTotal, pc, op, cur, frames, bt, ctx, url, inflight,
                   earnings, clock, outcome, log, calls, xin>>

NextExtract == ExtractStep

SpecExtract == InitExtract /\ [][NextExtract]_vars

---------------------------------------------------------------------------
(* The conversion of one (result, document) pair                           *)

NormCells == {StrCell(1), StrCell(2)}
NormColIds == {"ticker", "startdatetime", "epsestimate"}

NormDocs ==
    {Doc("SP_EARNINGS", [i \in 1..Len(ids) |-> Col(ids[i])], rows) :
        ids \in UNION {[1..m -> NormColIds] : m \in 0..MaxCols},
        rows \in UNION {[1..n -> UNION {[1..k -> NormCells] : k \in 0..MaxCols}] :
                          n \in 0..MaxRows}}

NormResults == {ResultNoDocs, [ResultNoDocs EXCEPT !.hasTotal = TRUE, !.total = 7]}

InitNormalize ==
    /\ delay = SLEEP_BETWEEN_REQUESTS_MS
    /\ srcTotal = [d \in Days |-> 0]
    /\ Idle
    /\ xin \in {[kind |-> "doc", result |-> r, doc |-> d] :
                  r \in NormResults, d \in NormDocs}
    /\ xout = NoX

\* lines 90-122 applied to the pair
NormalizeStep ==
    /\ xin.kind = "doc"
    /\ xout = NoX
    /\ xout' = [kind |-> "normalized",
                data |-> convert_visualization_to_dict(xin.result, xin.doc)]
    /\ UNCHANGED <<delay, srcTotal, pc, op, cur, frames, bt, ctx, url, inflight,
                   earnings, clock, outcome, log, calls, xin>>

NextNormalize == NormalizeStep

SpecNormalize == InitNormalize /\ [][NextNormalize]_vars

---------------------------------------------------------------------------
(* Properties                                                              *)

CeilDiv(t, n) == (t + n - 1) \div n

Requests(l) == SelectSeq(l, LAMBDA e : e.ev = "request")

\* the records of day d the source holds, in its order
AllDayRecords(d, total) == [i \in 1..total |-> [ticker |-> StrCell(d * 1000 + i)]]

RECURSIVE AllRecordsBetween(_, _, _)
AllRecordsBetween(from, to, totals) ==
    IF from > to THEN <<>>
    ELSE AllDayRecords(from, totals[from]) \o AllRecordsBetween(from + 1, to, totals)

DefaultEarningsOn ==
    /\ op.name = "earnings_on"
    /\ op.date.kind = "date"
    /\ op.offset = 0
    /\ op.count = 1

\* the pages of a default call are asked for at offsets 0, 100, 200, ...
PagesInOffsetOrder ==
    \A i \in 1..Len(Requests(log)) : Requests(log)[i].val = (i - 1) * OFFSET_STEP

\* C1, as stated: earnings_on(date) with the default offset and count, on a
\* source whose total is T on every page, issues exactly ceil(T/100) fetches
\* and returns the T records in page order.
C1_FetchesAreCeilOfTotal ==
    (DefaultEarningsOn /\ pc = "done" /\ outcome.status = "ok") =>
        /\ Len(Requests(log)) = CeilDiv(srcTotal[op.date.day], OFFSET_STEP)
        /\ PagesInOffsetOrder
        /\ outcome = OkList(AllDayRecords(op.date.day, srcTotal[op.date.day]))

\* C1, amended: the call issues max(1, ceil(T/100)) fetches (one fetch also
\* when T = 0: the total is known only from the first page), never more, at
\* offsets 0, 100, 200, ... in that order, and when every fetch succeeds it
\* returns exactly the T records of the source in page order.
C1_FetchesAndRecords ==
    DefaultEarningsOn =>
        LET T == srcTotal[op.date.day]
            n == Max(1, CeilDiv(T, OFFSET_STEP))
        IN /\ Len(Requests(log)) <= n
           /\ PagesInOffsetOrder
           /\ (pc = "done" /\ outcome.status = "ok") =>
                 /\ Len(Requests(log)) = n
                 /\ outcome = OkList(AllDayRecords(op.date.day, T))

C1_Witness ==
    /\ DefaultEarningsOn
    /\ pc = "done"
    /\ outcome.status = "ok"
    /\ srcTotal[op.date.day] > 2 * OFFSET_STEP
    /\ Len(Requests(log)) = 3
    /\ Len(outcome.rows) = srcTotal[op.date.day]

Upcoming(es, now) ==
    {StartOf(es[i]).v : i \in {j \in 1..Len(es) :
        StartOf(es[j]).kind = "datetime" /\ StartOf(es[j]).v >= now}}

Earliest(S) == CHOOSE t \in S : \A u \in S : t <= u

\* C3, as stated: get_next_earnings_date never completes without a
\* timestamp: it returns an integer timestamp or fails with Exception.
C3_TimestampOrException ==
    (op.name = "get_next_earnings_date" /\ pc = "done") =>
        /\ \/ outcome.status = "ok" /\ outcome.kind = "int"
           \/ outcome = Raised("Exception")
        /\ (clock >= 0 /\ Upcoming(earnings, clock) = {}) =>
              outcome = Raised("Exception")

\* C4, as stated: without the legacy value, get_next_earnings_date returns
\* the timestamp of the earliest record whose start is >= now, whatever
\* past-dated, date-only, malformed, missing or null starts the list holds
\* and wherever they stand in it.
C4_EarliestUpcomingReturned ==
    (/\ op.name = "get_next_earnings_date"
     /\ pc = "done"
     /\ clock >= 0
     /\ Upcoming(earnings, clock) # {}) =>
        outcome = OkInt(Timestamp(Earliest(Upcoming(earnings, clock))))

\* C5: for calendar dates from <= to, earnings_between calls earnings_on once
\* for each date of the range, in increasing order, each with offset 0 and
\* count 1, and returns the days' results concatenated in that order (for
\* from = to, the one day's records).
C5_OneCallPerDayInOrder ==
    (/\ op.name = "earnings_between"
     /\ op.from.kind = "date"
     /\ op.to.kind = "date"
     /\ op.from.day <= op.to.day) =>
        LET n == op.to.day - op.from.day + 1
            expected == [i \in 1..n |->
                [date |-> DateVal(op.from.day + i - 1), offset |-> 0, count |-> 1]]
        IN /\ Len(calls) <= n
           /\ calls = SubSeq(expected, 1, Len(calls))
           /\ (pc = "done" /\ outcome.status = "ok") =>
                 /\ calls = expected
                 /\ outcome = OkList(AllRecordsBetween(op.from.day, op.to.day, srcTotal))

C5_Witness ==
    /\ op.name = "earnings_between"
    /\ op.from.kind = "date"
    /\ op.to.kind = "date"
    /\ op.from.day < op.to.day
    /\ pc = "done"
    /\ outcome.status = "ok"
    /\ Len(calls) = op.to.day - op.from.day + 1
    /\ srcTotal[op.from.day] > OFFSET_STEP
    /\ srcTotal[op.to.day] = 1
    /\ Len(outcome.rows) = OFFSET_STEP + 2

\* C6, as stated: earnings_between fails with TypeError whenever a bound is
\* no datetime.date, and with ValueError whenever both are dates and from is
\* after to; in both cases before any fetch.
C6_BadBoundsFailByKind ==
    (op.name = "earnings_between" /\ pc = "done") =>
        /\ (~IsInstanceDate(op.from) \/ ~IsInstanceDate(op.to)) =>
              (outcome = Raised("TypeError") /\ log = <<>>)
        /\ (op.from.kind = "date" /\ op.to.kind = "date" /\ op.from.day > op.to.day) =>
              (outcome = Raised("ValueError") /\ log = <<>>)

\* C7, as stated: earnings_on fails with TypeError for every date argument
\* that is no datetime.date, for every offset and count, and never fetches.
C7_BadDateAlwaysTypeError ==
    (op.name = "earnings_on" /\ ~IsInstanceDate(op.date) /\ pc = "done") =>
        (outcome = Raised("TypeError") /\ log = <<>>)

\* what C8 describes: every candidate that does not yield a document is
\* passed over, in page order, then the fallback, then ValueError
RECURSIVE FirstMatch(_, _)
FirstMatch(cands, i) ==
    IF i > Len(cands) THEN Continue
    ELSE IF TryCandidate(cands[i]).ctl = "return" THEN TryCandidate(cands[i])
         ELSE FirstMatch(cands, i + 1)

\* C8, as stated: extraction tries the candidates in page order, then the
\* fallback; a candidate that fails only moves the scan on, the first match
\* ends it, and the only failure reported is ValueError, after every
\* candidate and the fallback failed.
C8_OnlyUnparseableAfterAll ==
    xout.kind = "extracted" =>
        LET m == FirstMatch(xin.page.cands, 1)
        IN IF m.ctl = "return" THEN xout.res = m
           ELSE xout.res = LegacyFallback(xin.page)

EventAt(i) == log[i].ev

\* C9: each fetch is immediately preceded by one delay of the configured
\* value, fetches go one after another with at most one in flight, and a
\* failed fetch ends the operation with a failure: it is the last event.
C9_DelayBeforeEachFetchNoRetry ==
    /\ inflight \in {0, 1}
    /\ inflight = 1 <=> pc = "wait"
    /\ \A i \in 1..Len(log) :
          /\ EventAt(i) = "request" =>
                /\ i > 1
                /\ log[i - 1] = [ev |-> "sleep", val |-> delay]
                /\ i < Len(log) => EventAt(i + 1) \in {"page", "failure"}
                /\ i = Len(log) => pc = "wait"
          /\ EventAt(i) = "sleep" =>
                /\ i > 1 => EventAt(i - 1) = "page"
                /\ i < Len(log) => EventAt(i + 1) = "request"
          /\ EventAt(i) = "failure" =>
                /\ i = Len(log)
                /\ pc = "done"
                /\ outcome.status = "raise"

C9_Witness ==
    /\ op.name = "earnings_between"
    /\ pc = "done"
    /\ Len(Requests(log)) >= 3
    /\ log[Len(log)].ev = "failure"
    /\ delay = SLEEP_BETWEEN_REQUESTS_MS

\* the cell of row at position i, None past its end
CellAt(row, i) == IF i <= Len(row) THEN row[i] ELSE NullCell

LastPositionOf(ids, id) ==
    CHOOSE i \in 1..Len(ids) : ids[i] = id /\ \A j \in (i + 1)..Len(ids) : ids[j] # id

NormalizedTotal ==
    IF xin.result.hasTotal THEN xin.result.total ELSE Len(xin.doc.rows)

\* C10, as stated: the conversion of a document with M column identifiers
\* and N rows gives N record mappings in row order, each with all M
\* identifiers as keys, key i mapping to the row's value at position i, or
\* None past the row's end; the total is the result's 'total' when present
\* and N otherwise.
C10_KeyMapsToItsPosition ==
    xout.kind = "normalized" =>
        LET ids == ColumnIds(xin.doc)
            rows == xin.doc.rows
        IN /\ Len(xout.data.rows) = Len(rows)
           /\ \A r \in 1..Len(rows) : \A i \in 1..Len(ids) :
                 /\ ids[i] \in DOMAIN xout.data.rows[r]
                 /\ xout.data.rows[r][ids[i]] = CellAt(rows[r], i)
           /\ xout.data.total = NormalizedTotal

\* C10, amended: N record mappings in row order, whose keys are exactly the
\* column identifiers, each identifier mapping to the row's value at the
\* LAST position that carries it (position i itself when the identifiers
\* are distinct), or None past the row's end; the total as stated.
C10_KeyMapsToItsLastPosition ==
    xout.kind = "normalized" =>
        LET ids == ColumnIds(xin.doc)
            rows == xin.doc.rows
        IN /\ Len(xout.data.rows) = Len(rows)
           /\ \A r \in 1..Len(rows) :
                 /\ DOMAIN xout.data.rows[r] = {ids[i] : i \in 1..Len(ids)}
                 /\ \A i \in 1..Len(ids) :
                       xout.data.rows[r][ids[i]] =
                           CellAt(rows[r], LastPositionOf(ids, ids[i]))
           /\ xout.data.total = NormalizedTotal
           /\ xout.data.has = {"total", "rows"}

C10_Witness ==
    /\ xout.kind = "normalized"
    /\ xin.result.hasTotal
    /\ Len(xin.doc.columns) = 2
    /\ xin.doc.columns[1] # xin.doc.columns[2]
    /\ Len(xin.doc.rows) = 2
    /\ Len(xin.doc.rows[1]) = 1
    /\ Len(xin.doc.rows[2]) = 2
    /\ xout.data.rows[1][xin.doc.columns[2].id] = NullCell
    /\ xout.data.total # Len(xin.doc.rows)

=============================================================================
